---- MODULE Spec2Model ----
(***************************************************************************)
(* Model of the persona / discharge-summary query engine                   *)
(* (persona_discharge_query.py) and of its config-driven driver            *)
(* (run_experiment.py).                                                    *)
(*                                                                         *)
(* Python values are modelled as follows:                                  *)
(*   - a dict is a function whose domain is the set of its keys;           *)
(*   - a list or tuple is a sequence;                                      *)
(*   - an Optional value is a sequence of length 0 (None) or 1.            *)
(* The external chat-completion service is the environment: each request   *)
(* either returns a completion with a token count or raises.               *)
(***************************************************************************)
EXTENDS Integers, Sequences, FiniteSets, TLC

(* ------------------------------ bounds -------------------------------- *)

\* longest candidate-value list of a varied persona attribute
MaxVals == 2
\* longest list of discharge summary ids / question ids passed by a caller
MaxIds == 2
\* largest value of max_personas tried
MaxLimit == 1
\* largest total_tokens a completion reports
MaxTokens == 2
\* longest list of explicit test cases
MaxCases == 2
\* most queries one directly started run may issue
MaxQueries == 4

(* --------------------------- Python helpers --------------------------- *)

None == <<>>

Some(x) == <<x>>

Min(a, b) == IF a <= b THEN a ELSE b

Max(a, b) == IF a >= b THEN a ELSE b

\* d.get(k, default)
Get(d, k, default) == IF k \in DOMAIN d THEN d[k] ELSE default

\* d[k] = v
Put(d, k, v) == [x \in (DOMAIN d) \cup {k} |-> IF x = k THEN v ELSE d[x]]

\* d.pop(k, None), the dict that is left
Pop(d, k) == [x \in (DOMAIN d) \ {k} |-> d[x]]

\* s[:k] for a list s and an integer k (a negative k counts from the end)
Slice(s, k) ==
    IF k >= 0 THEN SubSeq(s, 1, Min(k, Len(s)))
    ELSE SubSeq(s, 1, Max(0, Len(s) + k))

\* all lists over S of length at most n
SeqsUpTo(S, n) == UNION {[1..m -> S] : m \in 0..n}

\* those of them that repeat no element
DistinctSeqsUpTo(S, n) ==
    {s \in SeqsUpTo(S, n) : \A i, j \in 1..Len(s) : s[i] = s[j] => i = j}

(* ------------------------------ catalog ------------------------------- *)

\* self.questions: the ids, in insertion order
QuestionIds == <<"Q1", "Q2", "Q3", "Q4", "Q5", "Q6", "Q7", "Q8", "Q9", "Q10">>

\* self.discharge_summaries: the ids, in insertion order
DischargeSummaryIds == <<"DS1", "DS2", "DS3", "DS4">>

Range(s) == {s[i] : i \in 1..Len(s)}

\* self.questions[q_id]: the text is kept abstract, one text per id
questions == [q \in Range(QuestionIds) |-> <<"question text", q>>]

\* self.discharge_summaries[ds_id]
discharge_summaries == [d \in Range(DischargeSummaryIds) |-> <<"summary text", d>>]

(* --------------------------- prompt builder --------------------------- *)

\* build_persona_prompt: a fixed template filled with the six attributes,
\* the reasoning instruction, the summary text and the question text
build_persona_prompt(age, gender, education, ethnicity, doctor_visit, er_visit_frequency, discharge_summary, question) ==
    [intro |-> <<age, gender, education, ethnicity, doctor_visit, er_visit_frequency>>,
     reasoning_instruction |-> "Explain with your reasoning, then provide the letter.",
     discharge_summary |-> discharge_summary,
     question |-> question]

(* --------------------------- query executor --------------------------- *)

\* what the external service can do with one request
Replies ==
    {[ok |-> TRUE, content |-> "resp", total_tokens |-> t] : t \in 1..MaxTokens}
    \cup {[ok |-> FALSE, message |-> "err"]}

\* a variant whose failure dict carries an empty response as well
queryErrorKeepsResponse(reply, model) ==
    IF reply.ok
    THEN Put([success |-> TRUE, response |-> reply.content, model |-> model],
             "_tokens", reply.total_tokens)
    ELSE [success |-> FALSE, error |-> reply.message, response |-> ""]

\* query(): the result dict built from the outcome of the one request
query(reply, model) ==
    IF reply.ok
    THEN Put([success |-> TRUE, response |-> reply.content, model |-> model],
             "_tokens", reply.total_tokens)
    ELSE [success |-> FALSE, error |-> reply.message]

(* -------------------------- persona enumerator ------------------------ *)

required_keys ==
    <<"age", "gender", "education", "ethnicity", "doctor_visit", "er_visit_frequency">>

\* a variant that reports the first missing key only
missing_keysFirstOnly(persona_variations) ==
    LET all == SelectSeq(required_keys, LAMBDA k : k \notin DOMAIN persona_variations)
    IN  IF all = <<>> THEN <<>> ELSE <<Head(all)>>

\* [k for k in required_keys if k not in persona_variations]
missing_keys(persona_variations) ==
    SelectSeq(required_keys, LAMBDA k : k \notin DOMAIN persona_variations)

PrependAll(x, rests) == [i \in 1..Len(rests) |-> <<x>> \o rests[i]]

RECURSIVE ForEachValue(_, _)
ForEachValue(vals, rests) ==
    IF vals = <<>> THEN <<>>
    ELSE PrependAll(Head(vals), rests) \o ForEachValue(Tail(vals), rests)

\* itertools.product(*values): the last list varies fastest
RECURSIVE product(_)
product(values) ==
    IF values = <<>> THEN << <<>> >>
    ELSE ForEachValue(Head(values), product(Tail(values)))

\* truth value of an Optional[int]: None and 0 are false
Truthy(opt) == opt # None /\ opt[1] # 0

\* lines 166-173: the persona combinations the sweep will traverse
all_persona_combos_of(persona_variations, max_personas) ==
    LET values == [i \in 1..Len(required_keys) |-> persona_variations[required_keys[i]]]
        all == product(values)
    IN  IF Truthy(max_personas) /\ Len(all) > max_personas[1]
        THEN Slice(all, max_personas[1])
        ELSE all

\* dict(zip(keys, persona_combo))
persona_of(persona_combo) ==
    [k \in Range(required_keys) |->
        persona_combo[CHOOSE i \in 1..Len(required_keys) : required_keys[i] = k]]

(* ------------------------- per-triple bookkeeping --------------------- *)

\* a variant that counts successful queries instead of their tokens
tokens_ofCount(result) ==
    IF Get(result, "success", TRUE) /\ "_tokens" \in DOMAIN result THEN 1 ELSE 0

\* lines 216-218: what one result adds to total_tokens_used
tokens_of(result) ==
    IF Get(result, "success", TRUE) THEN Get(result, "_tokens", 0) ELSE 0

\* lines 220-231: the record appended to the result list
record_of(result, persona, ds_id, q_id, timestamp) ==
    LET r1 == Put(Put(Put(Put(result, "persona", persona),
                          "discharge_summary_id", ds_id),
                      "question_id", q_id),
                  "timestamp", timestamp)
        r2 == IF "success" \in DOMAIN r1 /\ r1["success"] = TRUE
              THEN Pop(r1, "success") ELSE r1
    IN  Pop(r2, "_tokens")

\* lines 240-242: the run total is stored on the first record
attach_summary(results, total) ==
    IF results # <<>>
    THEN [results EXCEPT ![1] = Put(results[1], "_summary_tokens", total)]
    ELSE results

\* line 326: results[0].pop('_summary_tokens', 0) if results else 0
summary_tokens_of(results) ==
    IF results # <<>> THEN Get(results[1], "_summary_tokens", 0) ELSE 0

\* a variant that reads the total with get() and leaves the key in place
written_ofKeepsKey(results) == results

\* line 326 and 329: the list as json.dump sees it, after the pop
written_of(results) ==
    IF results # <<>>
    THEN [results EXCEPT ![1] = Pop(results[1], "_summary_tokens")]
    ELSE results

(* ------------------------------ traversal ----------------------------- *)
(* The loops of both entry points are unfolded into the list of things     *)
(* they do in order: a query for a triple, or the KeyError of a catalog    *)
(* lookup, after which nothing more happens.                               *)

QueryEvent(persona, ds_id, q_id) ==
    [kind |-> "query", persona |-> persona, ds_id |-> ds_id, q_id |-> q_id]

KeyErrorEvent(key) == [kind |-> "KeyError", key |-> key]

\* for q_id in question_ids: question = self.questions[q_id]; ... query
RECURSIVE question_loop(_, _, _)
question_loop(persona, ds_id, q_ids) ==
    IF q_ids = <<>> THEN <<>>
    ELSE IF Head(q_ids) \notin DOMAIN questions
         THEN <<KeyErrorEvent(Head(q_ids))>>
         ELSE <<QueryEvent(persona, ds_id, Head(q_ids))>>
              \o question_loop(persona, ds_id, Tail(q_ids))

Raised(events) == events # <<>> /\ events[Len(events)].kind = "KeyError"

\* for ds_id in discharge_summary_ids: discharge_summary = self.discharge_summaries[ds_id]
RECURSIVE summary_loop(_, _, _)
summary_loop(persona, ds_ids, q_ids) ==
    IF ds_ids = <<>> THEN <<>>
    ELSE IF Head(ds_ids) \notin DOMAIN discharge_summaries
         THEN <<KeyErrorEvent(Head(ds_ids))>>
         ELSE LET inner == question_loop(persona, Head(ds_ids), q_ids)
              IN  IF Raised(inner) THEN inner
                  ELSE inner \o summary_loop(persona, Tail(ds_ids), q_ids)

RECURSIVE each_persona(_, _, _)
each_persona(combos, ds_id, q_ids) ==
    IF combos = <<>> THEN <<>>
    ELSE LET inner == summary_loop(persona_of(Head(combos)), <<ds_id>>, q_ids)
         IN  IF Raised(inner) THEN inner
             ELSE inner \o each_persona(Tail(combos), ds_id, q_ids)

\* a variant with the summary loop outside the persona loop
RECURSIVE persona_loopSummaryOuter(_, _, _)
persona_loopSummaryOuter(combos, ds_ids, q_ids) ==
    IF ds_ids = <<>> THEN <<>>
    ELSE LET inner == each_persona(combos, Head(ds_ids), q_ids)
         IN  IF Raised(inner) THEN inner
             ELSE inner \o persona_loopSummaryOuter(combos, Tail(ds_ids), q_ids)

\* for persona_combo in all_persona_combos
RECURSIVE persona_loop(_, _, _)
persona_loop(combos, ds_ids, q_ids) ==
    IF combos = <<>> THEN <<>>
    ELSE LET inner == summary_loop(persona_of(Head(combos)), ds_ids, q_ids)
         IN  IF Raised(inner) THEN inner
             ELSE inner \o persona_loop(Tail(combos), ds_ids, q_ids)

\* a variant that walks the list from its end
RECURSIVE test_case_loopReversed(_)
test_case_loopReversed(cases) ==
    IF cases = <<>> THEN <<>>
    ELSE LET tc == cases[Len(cases)]
         IN  IF tc.ds_id \notin DOMAIN discharge_summaries
             THEN <<KeyErrorEvent(tc.ds_id)>>
             ELSE IF tc.question_id \notin DOMAIN questions
             THEN <<KeyErrorEvent(tc.question_id)>>
             ELSE <<QueryEvent(tc.persona, tc.ds_id, tc.question_id)>>
                  \o test_case_loopReversed(SubSeq(cases, 1, Len(cases) - 1))

\* a variant that checks every id of the list against the catalog before
\* the first query
test_case_loopValidatesFirst(cases) ==
    LET bad(tc) == \/ tc.ds_id \notin DOMAIN discharge_summaries
                   \/ tc.question_id \notin DOMAIN questions
    IN  IF \E i \in 1..Len(cases) : bad(cases[i])
        THEN LET tc == cases[CHOOSE i \in 1..Len(cases) :
                               bad(cases[i]) /\ \A j \in 1..(i - 1) : ~bad(cases[j])]
             IN  <<KeyErrorEvent(IF tc.ds_id \notin DOMAIN discharge_summaries
                                 THEN tc.ds_id ELSE tc.question_id)>>
        ELSE [i \in 1..Len(cases) |->
                 QueryEvent(cases[i].persona, cases[i].ds_id, cases[i].question_id)]

\* for i, test_case in enumerate(test_cases, 1)
RECURSIVE test_case_loop(_)
test_case_loop(cases) ==
    IF cases = <<>> THEN <<>>
    ELSE LET tc == Head(cases)
         IN  IF tc.ds_id \notin DOMAIN discharge_summaries
             THEN <<KeyErrorEvent(tc.ds_id)>>
             ELSE IF tc.question_id \notin DOMAIN questions
             THEN <<KeyErrorEvent(tc.question_id)>>
             ELSE <<QueryEvent(tc.persona, tc.ds_id, tc.question_id)>>
                  \o test_case_loop(Tail(cases))

(* ------------------------ cost estimate (driver) ---------------------- *)

avg_tokens_per_query == 600

\* the confirmation threshold, in dollars
CostThresholdUsd == 10

\* costs_per_1k.get(model, 0.03), in thousandths of a dollar
cost_per_1k_milli(model) ==
    CASE model = "gpt-4" -> 30
      [] model = "gpt-4-turbo" -> 10
      [] model = "gpt-3.5-turbo" -> 1
      [] OTHER -> 30

\* round(n / d) to the nearest integer, ties to even
RoundDiv(n, d) ==
    LET q == n \div d
        r == n % d
    IN  IF 2 * r < d THEN q
        ELSE IF 2 * r > d THEN q + 1
        ELSE IF q % 2 = 0 THEN q ELSE q + 1

\* calculate_total_queries(config), for a config holding all six persona keys
calculate_total_queries(config) ==
    LET persona_values ==
            [i \in 1..Len(required_keys) |-> config.persona_variations[required_keys[i]]]
        n == Len(product(persona_values))
        num_personas == IF Truthy(config.max_personas)
                        THEN Min(n, config.max_personas[1]) ELSE n
    IN  num_personas * Len(config.discharge_summary_ids) * Len(config.question_ids)

\* estimate_cost(total_queries, model); the cost is kept in cents, as
\* round(estimated_cost, 2) leaves it
estimate_cost(total_queries, model) ==
    LET total_tokens == total_queries * avg_tokens_per_query
    IN  [total_queries |-> total_queries,
         estimated_tokens |-> total_tokens,
         estimated_cost_cents |-> RoundDiv(total_tokens * cost_per_1k_milli(model), 10000),
         model |-> model]

\* cost_info['estimated_cost_usd'] > 10
needs_confirmation(cost_info) == cost_info.estimated_cost_cents > CostThresholdUsd * 100

\* what the operator may type at the prompt
Answers == {"yes", "y", "YES", "Y", "no", "", "yes "}

\* str.lower() on those answers
lower(answer) ==
    CASE answer = "YES" -> "yes"
      [] answer = "Y" -> "y"
      [] OTHER -> answer

\* response.lower() not in ['yes', 'y'], negated
affirmative(answer) == lower(answer) \in {"yes", "y"}

\* the parameters run_full_experiment declares (self aside)
run_full_experiment_params ==
    {"persona_variations", "discharge_summary_ids", "question_ids",
     "model", "temperature", "max_personas"}

\* the keyword arguments main() of run_experiment.py passes to it
main_call_kwargs ==
    {"persona_variations", "discharge_summary_ids", "question_ids",
     "model", "temperature", "max_personas", "enable_reasoning"}

(* ------------------------------- inputs ------------------------------- *)

\* candidate values, as in the example of persona_discharge_query.main
AgeValues == {"25", "65"}

ErValues == <<"yearly", "never">>

\* persona specs whose age and er_visit_frequency lists vary (the ages in
\* any order, the er list cut short), with any subset of the six keys present
PersonaSpecs ==
    LET full(ages, ers) ==
            [k \in Range(required_keys) |->
                CASE k = "age" -> ages
                  [] k = "er_visit_frequency" -> ers
                  [] k = "gender" -> <<"male">>
                  [] k = "education" -> <<"high">>
                  [] k = "ethnicity" -> <<"White">>
                  [] OTHER -> <<"monthly">>]
    IN  {[k \in present |-> full(ages, ers)[k]] :
            present \in SUBSET Range(required_keys),
            ages \in DistinctSeqsUpTo(AgeValues, MaxVals),
            ers \in {SubSeq(ErValues, 1, n) : n \in 0..Min(MaxVals, Len(ErValues))}}

\* "DS9" and "Q99" are in no catalog
SummaryIdLists == DistinctSeqsUpTo({"DS2", "DS1", "DS9"}, MaxIds)

QuestionIdLists == DistinctSeqsUpTo({"Q10", "Q1", "Q99"}, MaxIds)

Limits == {None} \cup {Some(k) : k \in 0..MaxLimit}

PersonaA ==
    [age |-> "25", gender |-> "female", education |-> "high", ethnicity |-> "Asian",
     doctor_visit |-> "monthly", er_visit_frequency |-> "never"]

PersonaB ==
    [age |-> "65", gender |-> "male", education |-> "low", ethnicity |-> "White",
     doctor_visit |-> "never", er_visit_frequency |-> "monthly"]

TestCases ==
    {[persona |-> PersonaA, ds_id |-> "DS2", question_id |-> "Q10"],
     [persona |-> PersonaB, ds_id |-> "DS1", question_id |-> "Q1"],
     [persona |-> PersonaA, ds_id |-> "DS9", question_id |-> "Q1"],
     [persona |-> PersonaB, ds_id |-> "DS1", question_id |-> "Q99"]}

TestCaseLists == SeqsUpTo(TestCases, MaxCases)

\* configs of the driver: one persona per attribute value, or two values
\* for every attribute, or the 'age' key left out
ConfigPersonaSpecs ==
    LET one == [k \in Range(required_keys) |-> <<"a">>]
        two == [k \in Range(required_keys) |-> <<"a", "b">>]
    IN  {one, two, [k \in Range(required_keys) \ {"age"} |-> <<"a">>]}

Configs ==
    [persona_variations : ConfigPersonaSpecs,
     discharge_summary_ids : {<<"DS1">>, DischargeSummaryIds},
     question_ids : {<<"Q1">>, QuestionIds},
     model : {"gpt-4", "gpt-4-turbo", "gpt-3.5-turbo", "gpt-4o"},
     max_personas : {None, Some(0), Some(2)}]

(* -------------------------------- state ------------------------------- *)

VARIABLES
    pc,                     \* where the process is
    entry,                  \* which entry point started the run
    persona_variations,     \* arguments of run_full_experiment
    max_personas,
    discharge_summary_ids,
    question_ids,
    model,
    test_cases,             \* argument of run_specific_combinations
    all_persona_combos,     \* locals of the running entry point
    all_results,
    total_tokens_used,
    query_count,
    requests,               \* the requests sent to the external service
    replies,                \* what the service did with each of them
    clock,                  \* datetime.now(), as a tick per reading
    returned,               \* the list an entry point returned, if it did
    error,                  \* the exception that ended the run, if any
    file,                   \* the JSON array written, if any
    report,                 \* what save_results printed
    config,                 \* the driver's loaded config
    answer                  \* the operator's answer at the prompt

vars == <<pc, entry, persona_variations, max_personas, discharge_summary_ids,
          question_ids, model, test_cases, all_persona_combos, all_results,
          total_tokens_used, query_count, requests, replies, clock, returned,
          error, file, report, config, answer>>

args == <<persona_variations, max_personas, discharge_summary_ids, question_ids, model>>

locals == <<all_persona_combos, all_results, total_tokens_used, query_count>>

outputs == <<file, report>>

driver == <<config, answer>>

Init ==
    /\ pc = "idle"
    /\ entry = "none"
    /\ persona_variations = <<>>
    /\ max_personas = None
    /\ discharge_summary_ids = <<>>
    /\ question_ids = <<>>
    /\ model = "gpt-4"
    /\ test_cases = <<>>
    /\ all_persona_combos = <<>>
    /\ all_results = <<>>
    /\ total_tokens_used = 0
    /\ query_count = 0
    /\ requests = <<>>
    /\ replies = <<>>
    /\ clock = 0
    /\ returned = None
    /\ error = None
    /\ file = None
    /\ report = None
    /\ config = None
    /\ answer = None

\* what the running entry point does, in order
plan ==
    IF entry = "specific" THEN test_case_loop(test_cases)
    ELSE persona_loop(all_persona_combos, discharge_summary_ids, question_ids)

\* a variant that leaves the loops at the first failed query
ContinueStopOnError(events, done, results, total) ==
    IF done = Len(events) \/ (done > 0 /\ "error" \in DOMAIN results[done])
    THEN /\ pc' = "returned"
         /\ returned' = Some(attach_summary(results, total))
         /\ error' = error
    ELSE IF events[done + 1].kind = "KeyError"
    THEN /\ pc' = "raised"
         /\ error' = Some([type |-> "KeyError", detail |-> <<events[done + 1].key>>])
         /\ returned' = returned
    ELSE /\ pc' = "running"
         /\ UNCHANGED <<returned, error>>

\* control after the loops have been entered or one more query recorded:
\* the next thing is a query, a KeyError, or the end of the loops
Continue(events, done, results, total) ==
    IF done = Len(events)
    THEN /\ pc' = "returned"
         /\ returned' = Some(attach_summary(results, total))
         /\ error' = error
    ELSE IF events[done + 1].kind = "KeyError"
    THEN /\ pc' = "raised"
         /\ error' = Some([type |-> "KeyError", detail |-> <<events[done + 1].key>>])
         /\ returned' = returned
    ELSE /\ pc' = "running"
         /\ UNCHANGED <<returned, error>>

\* run_full_experiment up to its first request
RunFullExperiment(pv, ds_opt, q_opt, m, mp) ==
    LET ds_ids == IF ds_opt = None THEN DischargeSummaryIds ELSE ds_opt[1]
        q_ids == IF q_opt = None THEN QuestionIds ELSE q_opt[1]
        missing == missing_keys(pv)
    IN  /\ persona_variations' = pv
        /\ IF missing # <<>>
           THEN /\ pc' = "raised"
                /\ error' = Some([type |-> "ValueError", detail |-> missing])
                /\ UNCHANGED <<max_personas, discharge_summary_ids, question_ids,
                               model, all_persona_combos, returned>>
           ELSE LET combos == all_persona_combos_of(pv, mp)
                IN  /\ max_personas' = mp
                    /\ discharge_summary_ids' = ds_ids
                    /\ question_ids' = q_ids
                    /\ model' = m
                    /\ all_persona_combos' = combos
                    /\ Continue(persona_loop(combos, ds_ids, q_ids), 0, <<>>, 0)
        /\ UNCHANGED <<all_results, total_tokens_used, query_count, requests, replies, clock>>

\* a caller starts a full sweep
CallRunFullExperiment ==
    /\ pc = "idle"
    /\ entry' = "full"
    /\ \E pv \in PersonaSpecs :
          IF missing_keys(pv) # <<>>
          THEN \* the call fails before it reads its other arguments
               RunFullExperiment(pv, None, None, "gpt-4", None)
          ELSE \E mp \in Limits,
                  ds_opt \in {None} \cup {Some(l) : l \in SummaryIdLists},
                  q_opt \in {None} \cup {Some(l) : l \in QuestionIdLists} :
                  /\ Len(all_persona_combos_of(pv, mp))
                       * (IF ds_opt = None THEN Len(DischargeSummaryIds) ELSE Len(ds_opt[1]))
                       * (IF q_opt = None THEN Len(QuestionIds) ELSE Len(q_opt[1]))
                     <= MaxQueries
                  /\ RunFullExperiment(pv, ds_opt, q_opt, "gpt-4", mp)
    /\ UNCHANGED <<test_cases, outputs, driver>>

\* a caller starts a targeted list
CallRunSpecificCombinations ==
    /\ pc = "idle"
    /\ entry' = "specific"
    /\ \E cases \in TestCaseLists :
          /\ Len(cases) <= MaxQueries
          /\ test_cases' = cases
          /\ Continue(test_case_loop(cases), 0, <<>>, 0)
    /\ UNCHANGED <<args, locals, requests, replies, clock, outputs, driver>>

\* one pass through the loop body of either entry point: the prompt is
\* built, the request sent, its outcome recorded, and the loops advance
QueryStep ==
    /\ pc = "running"
    /\ LET events == plan
           ev == events[query_count + 1]
           p == ev.persona
           prompt == build_persona_prompt(
                        p["age"], p["gender"], p["education"], p["ethnicity"],
                        p["doctor_visit"], p["er_visit_frequency"],
                        discharge_summaries[ev.ds_id], questions[ev.q_id])
       IN  \E reply \in Replies :
             LET result == query(reply, model)
                 total == total_tokens_used + tokens_of(result)
                 results == Append(all_results,
                                   record_of(result, p, ev.ds_id, ev.q_id, clock + 1))
             IN  /\ requests' = Append(requests, [prompt |-> prompt, model |-> model])
                 /\ replies' = Append(replies, reply)
                 /\ query_count' = query_count + 1
                 /\ clock' = clock + 1
                 /\ total_tokens_used' = total
                 /\ all_results' = results
                 /\ Continue(events, query_count + 1, results, total)
    /\ UNCHANGED <<entry, args, test_cases, all_persona_combos, outputs, driver>>

\* save_results(results, output_file); the pop is done on the caller's own
\* first record, so the returned list changes with it
SaveResults ==
    /\ pc = "returned"
    /\ LET results == returned[1]
           total_tokens == summary_tokens_of(results)
           written == written_of(results)
           successful == Cardinality({i \in 1..Len(written) :
                                         Get(written[i], "success", TRUE)})
       IN  /\ file' = Some(written)
           /\ report' = Some([successful |-> successful, total |-> Len(written),
                              total_tokens |-> total_tokens])
           /\ returned' = Some(written)
    /\ pc' = "saved"
    /\ UNCHANGED <<entry, args, test_cases, locals, requests, replies, clock,
                   error, driver>>

(* ------------------- run_experiment.main, the driver ------------------ *)

\* main() up to the confirmation prompt: the config is loaded (load_config
\* exits with status 1 on a missing or unparsable file), the number of
\* queries and the cost are computed and printed
MainStart ==
    /\ pc = "idle"
    /\ entry' = "main"
    /\ \E status \in {"ok", "missing", "invalid"} :
         IF status # "ok"
         THEN /\ pc' = "exited"
              /\ error' = Some([type |-> "SystemExit", detail |-> <<"1">>])
              /\ UNCHANGED config
         ELSE \E cfg \in Configs :
                /\ config' = Some(cfg)
                /\ LET missing == missing_keys(cfg.persona_variations)
                   IN  IF missing # <<>>
                       THEN /\ pc' = "raised"
                            /\ error' = Some([type |-> "KeyError",
                                              detail |-> <<Head(missing)>>])
                       ELSE /\ pc' = IF needs_confirmation(
                                          estimate_cost(calculate_total_queries(cfg),
                                                        cfg.model))
                                     THEN "confirm" ELSE "engine"
                            /\ UNCHANGED error
    /\ UNCHANGED <<args, test_cases, locals, requests, replies, clock, returned, outputs, answer>>

\* the operator answers the prompt
MainConfirm ==
    /\ pc = "confirm"
    /\ \E a \in Answers :
         /\ answer' = Some(a)
         /\ pc' = IF affirmative(a) THEN "engine" ELSE "cancelled"
    /\ UNCHANGED <<entry, args, test_cases, locals, requests, replies, clock, returned,
                   error, outputs, config>>

\* the engine is constructed (it needs the API key) and run_full_experiment
\* is called with the keyword arguments main() passes
MainRun ==
    /\ pc = "engine"
    /\ \E has_key \in BOOLEAN :
         IF ~has_key
         THEN /\ pc' = "no_credential"
              /\ UNCHANGED <<args, locals, requests, replies, clock, returned, error>>
         ELSE IF main_call_kwargs \subseteq run_full_experiment_params
         THEN LET cfg == config[1]
              IN  RunFullExperiment(cfg.persona_variations,
                                    Some(cfg.discharge_summary_ids),
                                    Some(cfg.question_ids), cfg.model, cfg.max_personas)
         ELSE /\ pc' = "raised"
              /\ error' = Some([type |-> "TypeError",
                                detail |-> <<"enable_reasoning">>])
              /\ UNCHANGED <<args, locals, requests, replies, clock, returned>>
    /\ UNCHANGED <<entry, test_cases, outputs, driver>>

Next ==
    \/ CallRunFullExperiment
    \/ CallRunSpecificCombinations
    \/ QueryStep
    \/ SaveResults
    \/ MainStart
    \/ MainConfirm
    \/ MainRun

Spec == Init /\ [][Next]_vars

(* ============================== properties ============================ *)

RECURSIVE LenProduct(_)
LenProduct(lists) ==
    IF lists = <<>> THEN 1 ELSE Len(Head(lists)) * LenProduct(Tail(lists))

\* the candidate lists of a complete persona spec, in key order
ValueLists(pv) == [i \in 1..Len(required_keys) |-> pv[required_keys[i]]]

\* the m-th persona (from 0) of the cartesian product of a complete spec,
\* read off m as a mixed-radix number whose last digit is er_visit_frequency
NthPersona(pv, m) ==
    LET lists == ValueLists(pv)
        n == Len(lists)
        digit(j) == (m \div LenProduct(SubSeq(lists, j + 1, n))) % Len(lists[j])
    IN  persona_of([j \in 1..n |-> lists[j][digit(j) + 1]])

Records == IF returned = None THEN <<>> ELSE returned[1]

Failed(r) == "error" \in DOMAIN r

AllKnown(ds_ids, q_ids) ==
    /\ Range(ds_ids) \subseteq DOMAIN discharge_summaries
    /\ Range(q_ids) \subseteq DOMAIN questions

\* C1: a full sweep over catalog ids returns exactly one record per
\* (persona, summary id, question id) triple, P x D x Q of them, personas
\* outermost in product order, summaries in the middle, questions innermost,
\* whatever the outcomes of the queries.
SweepOneRecordPerTriple ==
    (entry = "full" /\ returned # None
       /\ AllKnown(discharge_summary_ids, question_ids)) =>
        LET P == Len(all_persona_combos)
            D == Len(discharge_summary_ids)
            Q == Len(question_ids)
            expected == [m \in 0..(P - 1) |-> NthPersona(persona_variations, m)]
        IN  /\ Len(Records) = P * D * Q
            /\ P <= LenProduct(ValueLists(persona_variations))
            /\ \A n \in 0..(Len(Records) - 1) :
                 /\ Records[n + 1]["persona"] = expected[n \div (D * Q)]
                 /\ Records[n + 1]["discharge_summary_id"]
                      = discharge_summary_ids[((n \div Q) % D) + 1]
                 /\ Records[n + 1]["question_id"] = question_ids[(n % Q) + 1]

\* a sweep of two personas over two summaries has returned four records,
\* some failed and some not
SweepOneRecordPerTripleWitness ==
    /\ entry = "full" /\ returned # None
    /\ Len(all_persona_combos) = 2 /\ Len(discharge_summary_ids) = 2
    /\ Len(Records) = 4
    /\ \E i, j \in 1..4 : Failed(Records[i]) /\ ~Failed(Records[j])

\* C2: a limit k below the product size, 0 included, keeps exactly the first
\* k personas of the product; no limit or k >= total keeps the whole product.
LimitKeepsFirstK ==
    (entry = "full" /\ pc # "idle" /\ missing_keys(persona_variations) = <<>>) =>
        LET all == product(ValueLists(persona_variations))
        IN  IF max_personas # None /\ max_personas[1] < Len(all)
            THEN all_persona_combos = SubSeq(all, 1, max_personas[1])
            ELSE all_persona_combos = all

\* C3: with a required persona key absent the sweep fails with an error that
\* lists every missing key, before any request and without any record.
MissingKeysAllReported ==
    (entry = "full" /\ Range(required_keys) \ DOMAIN persona_variations # {}) =>
        /\ pc = "raised"
        /\ error # None
        /\ error[1].type = "ValueError"
        /\ Range(error[1].detail) = Range(required_keys) \ DOMAIN persona_variations
        /\ requests = <<>>
        /\ returned = None
        /\ file = None

\* a sweep called without 'gender' and without 'ethnicity' has failed
MissingKeysAllReportedWitness ==
    /\ entry = "full" /\ pc = "raised"
    /\ Range(required_keys) \ DOMAIN persona_variations = {"gender", "ethnicity"}

\* C4: every returned record carries exactly one of a response and an error.
ResponseXorError ==
    \A i \in 1..Len(Records) :
        ("response" \in DOMAIN Records[i]) # ("error" \in DOMAIN Records[i])

\* a run has returned a failed record and a successful one
ResponseXorErrorWitness ==
    /\ pc = "returned"
    /\ \E i, j \in 1..Len(Records) :
         /\ "error" \in DOMAIN Records[i] /\ Records[i]["error"] = "err"
         /\ "response" \in DOMAIN Records[j] /\ Records[j]["response"] = "resp"

\* the number of triples a run is asked to query
NumTriples ==
    IF entry = "specific" THEN Len(test_cases)
    ELSE Len(all_persona_combos) * Len(discharge_summary_ids) * Len(question_ids)

\* the i-th triple (from 1) in traversal order
NthTriple(i) ==
    IF entry = "specific"
    THEN [persona |-> test_cases[i].persona, ds_id |-> test_cases[i].ds_id,
          q_id |-> test_cases[i].question_id]
    ELSE LET D == Len(discharge_summary_ids)
             Q == Len(question_ids)
         IN  [persona |-> persona_of(all_persona_combos[((i - 1) \div (D * Q)) + 1]),
              ds_id |-> discharge_summary_ids[(((i - 1) \div Q) % D) + 1],
              q_id |-> question_ids[((i - 1) % Q) + 1]]

PromptFor(t) ==
    LET p == t.persona
    IN  build_persona_prompt(p["age"], p["gender"], p["education"], p["ethnicity"],
                             p["doctor_visit"], p["er_visit_frequency"],
                             discharge_summaries[t.ds_id], questions[t.q_id])

\* C5: a failed call gives its triple a failed record (error, no response),
\* the run goes on to the next triple, and exactly one request is issued per
\* triple, whatever the pattern of successes and failures.
FailureRecoveredOneRequestPerTriple ==
    entry \in {"full", "specific"} =>
        /\ Len(requests) = Len(all_results)
        /\ Len(replies) = Len(requests)
        /\ \A i \in 1..Len(requests) :
             LET t == NthTriple(i) IN
             /\ requests[i].prompt = PromptFor(t)
             /\ all_results[i]["persona"] = t.persona
             /\ all_results[i]["discharge_summary_id"] = t.ds_id
             /\ all_results[i]["question_id"] = t.q_id
             /\ ~replies[i].ok =>
                  /\ "error" \in DOMAIN all_results[i]
                  /\ all_results[i]["error"] = replies[i].message
                  /\ "response" \notin DOMAIN all_results[i]
        /\ pc \in {"returned", "saved"} =>
             /\ Len(requests) = NumTriples
             /\ Len(Records) = NumTriples
        /\ pc = "raised" =>
             /\ error[1].type \in {"KeyError", "ValueError"}
             /\ error[1].type = "KeyError" =>
                  error[1].detail[1] \notin (DOMAIN discharge_summaries) \cup (DOMAIN questions)

\* a run has returned after a failed call that was followed by a successful one
FailureRecoveredWitness ==
    /\ pc = "returned"
    /\ Len(requests) >= 3
    /\ \E i \in 1..(Len(replies) - 1) : ~replies[i].ok /\ replies[i + 1].ok

\* C6: a targeted list of n triples with catalog ids returns n records, the
\* i-th echoing the i-th triple, in input order, whatever fails.
TargetedEchoesInputOrder ==
    (entry = "specific" /\ returned # None
       /\ \A i \in 1..Len(test_cases) :
            /\ test_cases[i].ds_id \in DOMAIN discharge_summaries
            /\ test_cases[i].question_id \in DOMAIN questions) =>
        /\ Len(Records) = Len(test_cases)
        /\ \A i \in 1..Len(test_cases) :
             /\ Records[i]["persona"] = test_cases[i].persona
             /\ Records[i]["discharge_summary_id"] = test_cases[i].ds_id
             /\ Records[i]["question_id"] = test_cases[i].question_id

\* a list that names DS2 before DS1 has returned two records, the first failed
TargetedEchoesInputOrderWitness ==
    /\ entry = "specific" /\ pc = "returned"
    /\ Len(test_cases) = 2 /\ Len(Records) = 2
    /\ test_cases[1].ds_id = "DS2" /\ test_cases[2].ds_id = "DS1"
    /\ Failed(Records[1]) /\ ~Failed(Records[2])

RECURSIVE SuccessfulTokens(_)
SuccessfulTokens(rs) ==
    IF rs = <<>> THEN 0
    ELSE (IF Head(rs).ok THEN Head(rs).total_tokens ELSE 0) + SuccessfulTokens(Tail(rs))

\* C7: when an entry point returns a non-empty list, the total on its first
\* record is the sum of the token counts of the successful queries of the
\* run, and no record keeps a token count of its own.
AggregateTokensOnFirstRecord ==
    (pc = "returned" /\ Records # <<>>) =>
        /\ "_summary_tokens" \in DOMAIN Records[1]
        /\ Records[1]["_summary_tokens"] = SuccessfulTokens(replies)
        /\ \A i \in 1..Len(Records) : "_tokens" \notin DOMAIN Records[i]
        /\ \A i \in 2..Len(Records) : "_summary_tokens" \notin DOMAIN Records[i]

\* a run with a failed query and successful ones of 2 and 1 tokens has returned
AggregateTokensWitness ==
    /\ pc = "returned"
    /\ \E i, j, k \in 1..Len(replies) :
         /\ ~replies[i].ok
         /\ replies[j].ok /\ replies[j].total_tokens = 2
         /\ replies[k].ok /\ replies[k].total_tokens = 1
    /\ Records[1]["_summary_tokens"] = 3

\* C8: save_results writes as many records as it was given, none with the
\* transient total, and reports the total that was attached (0 if empty).
SaveStripsAggregate ==
    [][(pc = "returned" /\ pc' = "saved") =>
         /\ file' # None /\ report' # None
         /\ Len(file'[1]) = Len(Records)
         /\ \A i \in 1..Len(file'[1]) : "_summary_tokens" \notin DOMAIN file'[1][i]
         /\ report'[1].total_tokens =
              (IF Records = <<>> THEN 0 ELSE Records[1]["_summary_tokens"])
         /\ report'[1].total = Len(Records)]_vars

\* a list of two records with a total of 3 tokens has been saved
SaveStripsAggregateWitness ==
    /\ pc = "saved"
    /\ Len(file[1]) = 2
    /\ report[1].total_tokens = 3

\* C9: every persisted record, failed or not, has the keys model, persona,
\* discharge_summary_id, question_id and timestamp besides its response or
\* error.
PersistedRecordsEchoMetadata ==
    file # None =>
        \A i \in 1..Len(file[1]) :
            {"model", "persona", "discharge_summary_id", "question_id", "timestamp"}
                \subseteq DOMAIN file[1][i]

\* C10: the driver, with a valid config and a credential, ends without
\* error, request or output when the cost is above the threshold and the
\* answer is not affirmative, and otherwise runs the sweep and saves it.
GateOnlyBlocksExecution ==
    (entry = "main" /\ config # None /\ pc \in {"cancelled", "raised", "saved"}
       /\ missing_keys(config[1].persona_variations) = <<>>) =>
        LET cost_info == estimate_cost(calculate_total_queries(config[1]), config[1].model)
        IN  IF needs_confirmation(cost_info) /\ ~affirmative(answer[1])
            THEN pc = "cancelled" /\ error = None /\ requests = <<>> /\ file = None
            ELSE pc = "saved" /\ file # None

\* the summary id and the question id of the i-th triple (from 1)
NthIds(i) ==
    IF entry = "specific"
    THEN [ds_id |-> test_cases[i].ds_id, q_id |-> test_cases[i].question_id]
    ELSE LET D == Len(discharge_summary_ids)
             Q == Len(question_ids)
         IN  [ds_id |-> discharge_summary_ids[(((i - 1) \div Q) % D) + 1],
              q_id |-> question_ids[((i - 1) % Q) + 1]]

\* a triple that names an id absent from the catalog
UnknownId(t) ==
    \/ t.ds_id \notin DOMAIN discharge_summaries
    \/ t.q_id \notin DOMAIN questions

\* the id whose lookup fails for such a triple: the summary is looked up first
FailingId(t) ==
    IF t.ds_id \notin DOMAIN discharge_summaries THEN t.ds_id ELSE t.q_id

\* C11: ids are looked up during the traversal, not before it: when a run
\* over non-empty inputs names an id absent from the catalog, the KeyError
\* is raised exactly when the traversal reaches the first triple using such
\* an id, after the requests of all the triples before it have been issued,
\* and the run returns nothing (the records accumulated so far are lost).
LazyLookupAborts ==
    (entry \in {"full", "specific"} /\ pc # "idle") =>
        LET bad == {i \in 1..NumTriples : UnknownId(NthIds(i))}
        IN  bad # {} =>
              LET b == CHOOSE i \in bad : \A j \in bad : i <= j
              IN  /\ pc \in {"running", "raised"}
                  /\ returned = None
                  /\ file = None
                  /\ Len(requests) <= b - 1
                  /\ (pc = "raised") <=> (Len(requests) = b - 1)
                  /\ pc = "raised" =>
                       /\ error = Some([type |-> "KeyError",
                                        detail |-> <<FailingId(NthIds(b))>>])
                       /\ Len(all_results) = b - 1
                       /\ \A i \in 1..(b - 1) :
                            requests[i].prompt = PromptFor(NthTriple(i))

\* a sweep has issued the requests of its first two triples and then failed
\* on the lookup of summary DS9, returning nothing
LazyLookupAbortsWitness ==
    /\ entry = "full" /\ pc = "raised"
    /\ error = Some([type |-> "KeyError", detail |-> <<"DS9">>])
    /\ Len(requests) = 2 /\ Len(all_results) = 2
    /\ returned = None

\* a targeted list has issued the request of its first case and then failed
\* on the lookup of question Q99 of its second
LazyLookupAbortsTargetedWitness ==
    /\ entry = "specific" /\ pc = "raised"
    /\ error = Some([type |-> "KeyError", detail |-> <<"Q99">>])
    /\ Len(requests) = 1 /\ Len(all_results) = 1
    /\ returned = None

====
